---- MODULE Spec2Model ----
(***************************************************************************)
(* A model of app.py, the Flask application that reads Thai bank transfer  *)
(* slips: an upload is saved under UPLOAD_FOLDER, binarised by             *)
(* preprocess_image, read by the OCR engine, scanned by                    *)
(* extract_amount_and_date and appended to RESULTS_FILE.                   *)
(*                                                                         *)
(* Text is a sequence of Unicode code points, an image a record of its     *)
(* mode, size and pixel bands, the upload folder a map from file names to  *)
(* file contents and the ledger a sequence of rows.  Requests are served   *)
(* concurrently (Flask's development server is threaded), so upload_file   *)
(* is cut at each access to the shared folder or ledger.                   *)
(***************************************************************************)
EXTENDS Integers, Sequences, FiniteSets, TLC

\* ------------------------------------------------------------------ bounds
NumReq == 2         \* concurrent requests in Spec
MaxTextLen == 3     \* OCR texts: every text this long over Alphabet, and the samples
MaxW == 2           \* image widths 1..MaxW
NumColors == 3      \* the first NumColors colours of ColorList

\* ------------------------------------------------------- text (code points)
\* Thai script, the range the date pattern names: U+0E00..U+0E7F
ThaiLo == 3584
ThaiHi == 3711

\* r"\d{3}[.]{1}\d{2}"
amount_patterns ==
  <<92, 100, 123, 51, 125, 91, 46, 93, 123, 49, 125, 92, 100, 123, 50, 125>>

\* r"\d{1,2}[\s\u0E00-\u0E7F\]+.{1}+[\u0E00-\u0E7F]+\.?\s+\d{4}", a raw string:
\* each \u0E00 is the six characters backslash, u, 0, E, 0, 0
date_patterns ==
  <<92, 100, 123, 49, 44, 50, 125, 91, 92, 115, 92, 117, 48, 69, 48, 48, 45,
    92, 117, 48, 69, 55, 70, 92, 93, 43, 46, 123, 49, 125, 43, 91, 92, 117,
    48, 69, 48, 48, 45, 92, 117, 48, 69, 55, 70, 93, 43, 92, 46, 63, 92, 115,
    43, 92, 100, 123, 52, 125>>

None == [none |-> TRUE]

\* re.compile of a pattern that is ONE character, which is what the loops
\* "for pattern in amount_patterns" hand to re.search: the loop variable runs
\* over the characters of the pattern string.  A lone backslash is a bad
\* escape, a lone '[' an unterminated set, a lone '+' or '?' (or '*') has
\* nothing to repeat, a lone '(' or ')' is unbalanced.
re_compile_fails(p) == p \in {92, 91, 43, 63, 42, 40, 41}

\* re.IGNORECASE on ASCII letters
casefold(c) == IF c \in 65..90 THEN c + 32 ELSE c

\* re.search(p, text, re.IGNORECASE) for a one-character pattern that compiles:
\* TRUE when a Match is returned.  '.' is any character but a newline, '^', '$'
\* and '|' match the empty string, every other character is a literal.
re_search(p, text) ==
  IF p \in {94, 36, 124} THEN TRUE
  ELSE IF p = 46 THEN \E i \in 1..Len(text) : text[i] # 10
  ELSE \E i \in 1..Len(text) : casefold(text[i]) = casefold(p)

\* One of the two loops of extract_amount_and_date, from its i-th pattern on.
\* The result is how the loop ends: "re.error" (re.search raises compiling the
\* pattern), "IndexError" (the pattern matched and match.group(1) is asked of
\* a pattern with no group), or "none" (no pattern matched: the variable keeps
\* its None).  No pattern has a group, so the assignment after group(1) (the
\* float conversion, the strptime attempts) is never reached.
RECURSIVE pattern_loop(_, _, _)
pattern_loop(patterns, text, i) ==
  IF i > Len(patterns) THEN "none"
  ELSE IF re_compile_fails(patterns[i]) THEN "re.error"
  ELSE IF re_search(patterns[i], text) THEN "IndexError"
  ELSE pattern_loop(patterns, text, i + 1)

\* extract_amount_and_date(text): the amount loop, then the date loop, then
\* return amount, date.
extract_amount_and_date(text) ==
  LET a == pattern_loop(amount_patterns, text, 1) IN
  IF a # "none" THEN [raised |-> TRUE, exc |-> a, amount |-> None, date |-> None]
  ELSE LET d == pattern_loop(date_patterns, text, 1) IN
       IF d # "none"
       THEN [raised |-> TRUE, exc |-> d, amount |-> None, date |-> None]
       ELSE [raised |-> FALSE, exc |-> "", amount |-> None, date |-> None]

\* str.strip(): leading and trailing whitespace removed
IsSpace(c) == c \in {9, 10, 11, 12, 13, 32}
RECURSIVE lstrip(_)
lstrip(t) == IF t # <<>> /\ IsSpace(Head(t)) THEN lstrip(Tail(t)) ELSE t
RECURSIVE rstrip(_)
rstrip(t) ==
  IF t # <<>> /\ IsSpace(t[Len(t)]) THEN rstrip(SubSeq(t, 1, Len(t) - 1)) ELSE t
strip(t) == rstrip(lstrip(t))

\* ------------------------------------------------------------------ images
\* A file's content: bytes PIL cannot identify, or an image of a mode, a size
\* and w*h pixels in row-major order, each pixel the tuple of its bands.
NotAnImage == [kind |-> "garbage"]
NoFile == [kind |-> "none"]
NoImage == [kind |-> "none"]
IsImage(content) == content.kind = "image"

\* cv2.threshold(cv_img, 0, 255, ...): maxval, and medianBlur(..., 3): ksize
MAXVAL == 255
KSIZE == 3

\* ImageOps.grayscale(img) is img.convert("L"): an "L" image is copied, an
\* "RGB" pixel becomes its ITU-R 601-2 luma, (19595 R + 38470 G + 7471 B +
\* 0x8000) >> 16.
luma(px) == (19595 * px[1] + 38470 * px[2] + 7471 * px[3] + 32768) \div 65536
grayscale(img) ==
  [img EXCEPT !.mode = "L",
              !.data = [i \in DOMAIN img.data |->
                          IF img.mode = "L" THEN img.data[i]
                          ELSE <<luma(img.data[i])>>]]

\* np.array(img): the h x w array of an image of one band, h x w x 3 of "RGB"
np_array(img) ==
  [w |-> img.w, h |-> img.h, channels |-> Len(img.data[1]),
   px |-> [i \in DOMAIN img.data |->
             IF Len(img.data[i]) = 1 THEN img.data[i][1] ELSE img.data[i]]]

\* Otsu's threshold of an 8-bit array, as cv2 computes it: over the levels
\* t = 0..255 in rising order, the first t that maximises the between-class
\* variance q1 q2 (mu1 - mu2)^2 of the classes px <= t and px > t, skipping
\* every t that leaves a class empty, and 0 when every t does.  With n1, n2
\* the class sizes and s1, s2 the class sums the variance is
\* (s1 n2 - s2 n1)^2 / (N^2 n1 n2), compared here by cross-multiplication.
\* The variance changes only at a level some pixel has, so only those levels
\* are candidates.
RECURSIVE SumUpTo(_, _, _)
SumUpTo(px, t, i) ==
  IF i = 0 THEN 0
  ELSE SumUpTo(px, t, i - 1) + (IF px[i] <= t THEN px[i] ELSE 0)
otsu(a) ==
  LET px == a.px
      N == Len(px)
      n1(t) == Cardinality({i \in 1..N : px[i] <= t})
      n2(t) == N - n1(t)
      s1(t) == SumUpTo(px, t, N)
      s2(t) == SumUpTo(px, MAXVAL, N) - s1(t)
      d(t) == s1(t) * n2(t) - s2(t) * n1(t)
      num(t) == d(t) * d(t)
      den(t) == n1(t) * n2(t)
      larger(t, u) == num(t) * den(u) > num(u) * den(t)
      valid == {t \in {px[i] : i \in 1..N} : n1(t) > 0 /\ n2(t) > 0}
  IN IF valid = {} THEN 0
     ELSE CHOOSE t \in valid :
            \A u \in valid \ {t} :
              IF u < t THEN larger(t, u) ELSE ~larger(u, t)

\* A plausible slip: THRESH_TOZERO in place of THRESH_BINARY keeps the grey
\* level of every pixel above the threshold.
cv_threshold_tozero(a) ==
  LET t == otsu(a) IN
  [a EXCEPT !.px = [i \in DOMAIN a.px |-> IF a.px[i] > t THEN a.px[i] ELSE 0]]

\* cv2.threshold(cv_img, 0, 255, cv2.THRESH_BINARY + cv2.THRESH_OTSU): the
\* threshold given (0) is replaced by Otsu's, and a pixel above it becomes
\* maxval, any other 0.
cv_threshold(a) ==
  LET t == otsu(a) IN
  [a EXCEPT !.px = [i \in DOMAIN a.px |-> IF a.px[i] > t THEN MAXVAL ELSE 0]]

\* cv2.medianBlur(thresholded_img, 3): each pixel becomes the median of the
\* ksize x ksize window around it, the border replicated.
clamp(v, lo, hi) == IF v < lo THEN lo ELSE IF v > hi THEN hi ELSE v
medianBlur(a) ==
  LET r == (KSIZE - 1) \div 2
      at(x, y) == a.px[clamp(y, 0, a.h - 1) * a.w + clamp(x, 0, a.w - 1) + 1]
      window == ((0 - r)..r) \X ((0 - r)..r)
      median(x, y) ==
        CHOOSE v \in {at(x + o[1], y + o[2]) : o \in window} :
          /\ 2 * Cardinality({o \in window : at(x + o[1], y + o[2]) < v})
               < KSIZE * KSIZE
          /\ 2 * Cardinality({o \in window : at(x + o[1], y + o[2]) <= v})
               > KSIZE * KSIZE
  IN [a EXCEPT !.px = [i \in DOMAIN a.px |->
                         median((i - 1) % a.w, (i - 1) \div a.w)]]

\* Image.fromarray of a 2-D uint8 array: an "L" image of the same pixels
Image_fromarray(a) ==
  [kind |-> "image", mode |-> "L", w |-> a.w, h |-> a.h,
   data |-> [i \in DOMAIN a.px |-> <<a.px[i]>>]]

\* preprocess_image(image_path), given the content Image.open found at the
\* path: the processed image, or the exception raised.  THRESH_OTSU takes an
\* 8-bit array of one channel only, and cv2.threshold raises cv2.error on
\* any other.
Raised(exc) == [kind |-> "raised", exc |-> exc]
preprocess_image(content) ==
  IF ~IsImage(content) THEN Raised("UnidentifiedImageError")
  ELSE LET cv_img == np_array(grayscale(content)) IN
       IF cv_img.channels # 1 THEN Raised("cv2.error")
       ELSE Image_fromarray(medianBlur(cv_threshold(cv_img)))

\* ------------------------------------------------------------ input sets
\* Colours of "RGB" pixels; the first NumColors are drawn from.
ColorList ==
  << <<0, 0, 0>>, <<255, 0, 0>>, <<255, 255, 255>>, <<0, 0, 255>>,
     <<0, 255, 0>>, <<128, 128, 128>> >>
Colors == {ColorList[i] : i \in 1..NumColors}
Heights == {1, 2}

ImagesOf(mode, w, h, pixels) ==
  {[kind |-> "image", mode |-> mode, w |-> w, h |-> h, data |-> d] :
     d \in [1..(w * h) -> pixels]}
AllImages ==
  UNION {ImagesOf("RGB", w, h, Colors) \cup
         ImagesOf("L", w, h, {<<luma(c)>> : c \in Colors}) :
           w \in 1..MaxW, h \in Heights}

\* Two slips that binarise differently, and a file that is no image
SlipA ==
  [kind |-> "image", mode |-> "RGB", w |-> 2, h |-> 1,
   data |-> << <<0, 0, 0>>, <<255, 255, 255>> >>]
SlipB ==
  [kind |-> "image", mode |-> "RGB", w |-> 2, h |-> 1,
   data |-> << <<255, 255, 255>>, <<255, 0, 0>> >>]
SampleFiles == {SlipA, SlipB, NotAnImage}

\* OCR output: "", "123.45", "1,234.56", "123.45 678.90", "15/03/2024",
\* "15 <U+0E21 U+0E35>.<U+0E04>. 2567" (March, abbreviated, B.E. 2567) and
\* "15 <U+0E21 U+0E04>. 2567"
TxtEmpty == <<>>
TxtAmount == <<49, 50, 51, 46, 52, 53>>
TxtThousands == <<49, 44, 50, 51, 52, 46, 53, 54>>
TxtTwoAmounts == <<49, 50, 51, 46, 52, 53, 32, 54, 55, 56, 46, 57, 48>>
TxtGregorian == <<49, 53, 47, 48, 51, 47, 50, 48, 50, 52>>
TxtThaiDate == <<49, 53, 32, 3617, 3637, 46, 3588, 46, 32, 50, 53, 54, 55>>
TxtThaiMonth == <<49, 53, 32, 3617, 3588, 46, 32, 50, 53, 54, 55>>
SampleTexts ==
  {TxtEmpty, TxtAmount, TxtThousands, TxtTwoAmounts, TxtGregorian,
   TxtThaiDate, TxtThaiMonth}
\* '\n', ' ', '.', '1', 'd', U+0E21
Alphabet == {10, 32, 46, 49, 100, 3617}
AllTexts ==
  SampleTexts \cup UNION {[1..n -> Alphabet] : n \in 0..MaxTextLen}

Names == {"a.jpg", "b.jpg"}
Req == 1..NumReq

\* ------------------------------------------------------------------- state
VARIABLES
  uploads,         \* UPLOAD_FOLDER: file name -> content, NoFile when absent
  ledger,          \* RESULTS_FILE: the rows of expenses.csv, header first
  pc,              \* request -> where its handler stands
  request,         \* request -> what the client sent
  processed_img,   \* request -> upload_file's local processed_img
  extracted_text,  \* request -> upload_file's local extracted_text
  response         \* request -> what Flask answered

vars ==
  <<uploads, ledger, pc, request, processed_img, extracted_text, response>>

Header == <<"Filename", "Amount", "Date", "Extracted_Text">>
NoRequest == [route |-> "none"]
NoText == <<-1>>
NoResponse == [status |-> 0]

\* The module's top level: uploads/ exists, expenses.csv holds its header,
\* and no request has arrived.
Init ==
  /\ uploads = [n \in Names |-> NoFile]
  /\ ledger = <<Header>>
  /\ pc = [r \in Req |-> "idle"]
  /\ request = [r \in Req |-> NoRequest]
  /\ processed_img = [r \in Req |-> NoImage]
  /\ extracted_text = [r \in Req |-> NoText]
  /\ response = [r \in Req |-> NoResponse]

\* GET /: upload_file falls through to render_template('upload.html')
GetUploadForm(r) ==
  /\ pc[r] = "idle"
  /\ request' = [request EXCEPT ![r] = [route |-> "/", method |-> "GET"]]
  /\ response' = [response EXCEPT ![r] = [status |-> 200, template |-> "upload.html"]]
  /\ pc' = [pc EXCEPT ![r] = "done"]
  /\ UNCHANGED <<uploads, ledger, processed_img, extracted_text>>

\* POST / without a 'file' part: redirect(request.url)
PostWithoutFile(r) ==
  /\ pc[r] = "idle"
  /\ request' = [request EXCEPT ![r] = [route |-> "/", method |-> "POST", has_file |-> FALSE]]
  /\ response' = [response EXCEPT ![r] = [status |-> 302]]
  /\ pc' = [pc EXCEPT ![r] = "done"]
  /\ UNCHANGED <<uploads, ledger, processed_img, extracted_text>>

\* POST / with a 'file' part whose filename is '': redirect(request.url)
PostEmptyFilename(r) ==
  /\ pc[r] = "idle"
  /\ request' = [request EXCEPT ![r] =
       [route |-> "/", method |-> "POST", has_file |-> TRUE, filename |-> ""]]
  /\ response' = [response EXCEPT ![r] = [status |-> 302]]
  /\ pc' = [pc EXCEPT ![r] = "done"]
  /\ UNCHANGED <<uploads, ledger, processed_img, extracted_text>>

\* POST / with a file: filepath = uploads/<filename>; file.save(filepath)
SaveUpload(r, names, files) ==
  /\ pc[r] = "idle"
  /\ \E n \in names, f \in files :
       /\ request' = [request EXCEPT ![r] =
            [route |-> "/", method |-> "POST", has_file |-> TRUE,
             filename |-> n, content |-> f]]
       /\ uploads' = [uploads EXCEPT ![n] = f]
  /\ pc' = [pc EXCEPT ![r] = "preprocess"]
  /\ UNCHANGED <<ledger, processed_img, extracted_text, response>>

\* processed_img = preprocess_image(filepath): Image.open reads what the
\* path holds now.  An exception out of preprocess_image (PIL's
\* UnidentifiedImageError when that is no image) is caught nowhere in
\* upload_file: Flask answers 500.
Preprocess(r) ==
  /\ pc[r] = "preprocess"
  /\ LET img == preprocess_image(uploads[request[r].filename]) IN
     IF img.kind = "raised"
     THEN /\ response' = [response EXCEPT ![r] = [status |-> 500, exc |-> img.exc]]
          /\ pc' = [pc EXCEPT ![r] = "done"]
          /\ UNCHANGED processed_img
     ELSE /\ processed_img' = [processed_img EXCEPT ![r] = img]
          /\ pc' = [pc EXCEPT ![r] = "ocr"]
          /\ UNCHANGED response
  /\ UNCHANGED <<uploads, ledger, request, extracted_text>>

\* extracted_text = pytesseract.image_to_string(processed_img, lang='eng+tha'):
\* the engine is outside this program, and may return any text.
Ocr(r, texts) ==
  /\ pc[r] = "ocr"
  /\ \E t \in texts : extracted_text' = [extracted_text EXCEPT ![r] = t]
  /\ pc' = [pc EXCEPT ![r] = "extract"]
  /\ UNCHANGED <<uploads, ledger, request, processed_img, response>>

\* amount, date = extract_amount_and_date(extracted_text); the row is
\* appended to expenses.csv; result.html is rendered.  An exception out of
\* extract_amount_and_date is caught nowhere: Flask answers 500 and the
\* lines after the call do not run.
ExtractAndRecord(r) ==
  /\ pc[r] = "extract"
  /\ LET e == extract_amount_and_date(extracted_text[r])
         filename == request[r].filename
         text == strip(extracted_text[r])
     IN IF e.raised
        THEN /\ response' = [response EXCEPT ![r] = [status |-> 500, exc |-> e.exc]]
             /\ UNCHANGED ledger
        ELSE /\ ledger' = Append(ledger, <<filename, e.amount, e.date, text>>)
             /\ response' = [response EXCEPT ![r] =
                  [status |-> 200, template |-> "result.html",
                   filename |-> filename, amount |-> e.amount, date |-> e.date,
                   extracted_text |-> text]]
  /\ pc' = [pc EXCEPT ![r] = "done"]
  /\ UNCHANGED <<uploads, request, processed_img, extracted_text>>

\* GET /expenses: view_expenses reads every row after the header
ViewExpenses(r) ==
  /\ pc[r] = "idle"
  /\ request' = [request EXCEPT ![r] = [route |-> "/expenses", method |-> "GET"]]
  /\ response' = [response EXCEPT ![r] =
       [status |-> 200, template |-> "expenses.html", expenses |-> Tail(ledger)]]
  /\ pc' = [pc EXCEPT ![r] = "done"]
  /\ UNCHANGED <<uploads, ledger, processed_img, extracted_text>>

\* Concurrent requests, two slips and a non-image under two file names
Next ==
  \E r \in Req :
    \/ GetUploadForm(r)
    \/ PostWithoutFile(r)
    \/ PostEmptyFilename(r)
    \/ SaveUpload(r, Names, SampleFiles)
    \/ Preprocess(r)
    \/ Ocr(r, {TxtEmpty, TxtAmount, TxtThaiDate})
    \/ ExtractAndRecord(r)
    \/ ViewExpenses(r)

Spec == Init /\ [][Next]_vars

\* One request at a time, every OCR text of the bounds
NextExtract ==
  \/ GetUploadForm(1)
  \/ PostWithoutFile(1)
  \/ PostEmptyFilename(1)
  \/ SaveUpload(1, {"a.jpg"}, {SlipA, NotAnImage})
  \/ Preprocess(1)
  \/ Ocr(1, AllTexts)
  \/ ExtractAndRecord(1)
  \/ ViewExpenses(1)

SpecExtract == Init /\ [][NextExtract]_vars

\* One request at a time, every image of the bounds
NextPreprocess ==
  \/ GetUploadForm(1)
  \/ PostWithoutFile(1)
  \/ PostEmptyFilename(1)
  \/ SaveUpload(1, {"a.jpg"}, AllImages \cup {NotAnImage})
  \/ Preprocess(1)
  \/ Ocr(1, {TxtThaiDate})
  \/ ExtractAndRecord(1)
  \/ ViewExpenses(1)

SpecPreprocess == Init /\ [][NextPreprocess]_vars

\* ------------------------------------------------------------------ claims
\* What the specification says of a text: its shapes, as the claims word them.
IsDigit(c) == c \in 48..57
IsThai(c) == c \in ThaiLo..ThaiHi
AllOf(t, lo, hi, P(_)) == \A k \in lo..hi : k \in 1..Len(t) /\ P(t[k])
Digit(t, k) == t[k] - 48

\* three digits, a decimal point, two digits, starting at i
AmountAt(t, i) ==
  /\ i + 5 <= Len(t)
  /\ AllOf(t, i, i + 2, IsDigit)
  /\ t[i + 3] = 46
  /\ AllOf(t, i + 4, i + 5, IsDigit)
HasAmount(t) == \E i \in 1..Len(t) : AmountAt(t, i)
\* the value of the leftmost such substring, in hundredths
FirstAmount(t) ==
  LET i == CHOOSE i \in 1..Len(t) :
             AmountAt(t, i) /\ \A j \in 1..(i - 1) : ~AmountAt(t, j)
  IN 10000 * Digit(t, i) + 1000 * Digit(t, i + 1) + 100 * Digit(t, i + 2)
       + 10 * Digit(t, i + 4) + Digit(t, i + 5)

\* 1-2 digits, whitespace, a month token, whitespace, four digits: the
\* substring t[i..j].  The month token is a run of Thai characters that a
\* period may follow, once ("15 <Thai>. 2567") or, as in the abbreviation of
\* the specification's own example, after each of its parts.
MonthToken(t, lo, hi) ==
  /\ lo <= hi
  /\ AllOf(t, lo, lo, IsThai)
  /\ \A k \in (lo + 1)..hi : IsThai(t[k]) \/ (t[k] = 46 /\ IsThai(t[k - 1]))
DateAt(t, i, j) ==
  /\ 1 <= i /\ j <= Len(t)
  /\ \E a \in i..(i + 1), b \in i..j, c \in i..j :
       /\ AllOf(t, i, a, IsDigit)
       /\ a < b /\ AllOf(t, a + 1, b, IsSpace)
       /\ b < c /\ MonthToken(t, b + 1, c)
       /\ c < j - 4 /\ AllOf(t, c + 1, j - 4, IsSpace)
       /\ AllOf(t, j - 3, j, IsDigit)
HasDate(t) == \E i \in 1..Len(t), j \in 1..Len(t) : DateAt(t, i, j)
\* the leftmost such substring
FirstDate(t) ==
  LET i == CHOOSE i \in 1..Len(t) :
             /\ \E j \in 1..Len(t) : DateAt(t, i, j)
             /\ \A k \in 1..(i - 1), j \in 1..Len(t) : ~DateAt(t, k, j)
      j == CHOOSE j \in 1..Len(t) : DateAt(t, i, j)
  IN SubSeq(t, i, j)

\* request r is an upload: POST / with a named file
IsUpload(r) ==
  /\ request[r].route = "/"
  /\ request[r].method = "POST"
  /\ request[r].has_file
  /\ request[r].filename # ""
\* extract_amount_and_date was called for request r and has ended
Extracted(r) == pc[r] = "done" /\ extracted_text[r] # NoText
Returned(r) == response[r].status = 200 /\ response[r].template = "result.html"

\* C1: for every recognized text, the empty one included,
\* extract_amount_and_date returns a pair and never raises.
C1_ExtractNeverRaises ==
  \A r \in Req : Extracted(r) => response[r].status # 500

\* C2: a text with a substring "three digits, point, two digits" gives as
\* amount the value of the leftmost such substring.
C2_FirstAmountReturned ==
  \A r \in Req :
    (Extracted(r) /\ HasAmount(extracted_text[r])) =>
      /\ Returned(r)
      /\ response[r].amount = [val |-> FirstAmount(extracted_text[r])]

\* C3: a text with a Thai-month-shaped date gives as date the first matched
\* substring, character for character.
C3_ThaiDateVerbatim ==
  \A r \in Req :
    (Extracted(r) /\ HasDate(extracted_text[r])) =>
      /\ Returned(r)
      /\ response[r].date = [val |-> FirstDate(extracted_text[r])]

\* C4: a text with no substring "three digits, point, two digits" gives an
\* absent amount.
C4_NoAmountIsNone ==
  \A r \in Req :
    (Extracted(r) /\ ~HasAmount(extracted_text[r])) =>
      (Returned(r) /\ response[r].amount = None)

\* C5: a text with no Thai-month-shaped date gives an absent date.
C5_NoDateIsNone ==
  \A r \in Req :
    (Extracted(r) /\ ~HasDate(extracted_text[r])) =>
      (Returned(r) /\ response[r].date = None)

\* C6: every upload whose file decodes as an image ends by rendering a
\* result, whatever the OCR text; only an undecodable upload fails hard.
C6_DecodableUploadRenders ==
  \A r \in Req :
    (pc[r] = "done" /\ IsUpload(r)) =>
      IF IsImage(request[r].content) THEN Returned(r)
      ELSE response[r].status = 500

\* C7: an upload whose bytes are no image ends in the decode error, and no
\* step of it changes the ledger.
C7_DecodeErrorNoRecord ==
  [][\A r \in Req :
       (pc'[r] # pc[r] /\ IsUpload(r)' /\ ~IsImage(request'[r].content)) =>
         /\ ledger' = ledger
         /\ pc'[r] \in {"preprocess", "done"}
         /\ pc'[r] = "done" =>
              response'[r] = [status |-> 500, exc |-> "UnidentifiedImageError"]]_vars

C9_OwnImageProcessed ==
  \A r \in Req :
    processed_img[r] # NoImage =>
      processed_img[r] = preprocess_image(request[r].content)

\* C10: for every decodable image preprocess_image does not raise, and
\* returns an image of one channel, of the size of its input, whose every
\* pixel is 0 or 255.
C10_PreprocessBinary ==
  [][\A r \in Req :
       (pc[r] = "preprocess" /\ pc'[r] # "preprocess"
          /\ IsImage(uploads[request[r].filename])) =>
         LET in == uploads[request[r].filename]
             out == processed_img'[r]
         IN /\ pc'[r] = "ocr"
            /\ out.kind = "image" /\ out.mode = "L"
            /\ out.w = in.w /\ out.h = in.h /\ Len(out.data) = in.w * in.h
            /\ \A i \in DOMAIN out.data : out.data[i] \in {<<0>>, <<MAXVAL>>}]_vars

\* C10's case: a colour image with a grey level strictly between black and
\* white has been preprocessed, and the result holds both levels.
C10_Witness ==
  \E r \in Req :
    /\ pc[r] = "ocr"
    /\ request[r].content.mode = "RGB"
    /\ \E i \in DOMAIN request[r].content.data :
         luma(request[r].content.data[i]) \notin {0, MAXVAL}
    /\ {processed_img[r].data[i] : i \in DOMAIN processed_img[r].data}
         = {<<0>>, <<MAXVAL>>}

====
